---- MODULE Spec2Model ----
(***************************************************************************)
(* Model of gomuks' crypto commands (ui/crypto-commands.go): the device    *)
(* trust commands, key export/import, the SSSS commands and the            *)
(* cross-signing commands.  Every command handler is one action; the       *)
(* outcomes of the calls it makes into the crypto machine, the store, the  *)
(* server and the prompts are inputs of the action.  The variables cmd,    *)
(* log and panicked describe the command that ran last: log is the         *)
(* sequence of calls, prompts and replies that command made, in order.     *)
(***************************************************************************)
EXTENDS FiniteSets, Integers, Sequences, TLC

VARIABLES
    device,             \* in-memory device records (*crypto.DeviceIdentity)
    stored,             \* trust state persisted by CryptoStore.PutDevice
    sas,                \* devices for which a SAS verification session was started
    defaultKeyID,       \* the account's default SSSS key id (server account data)
    keyData,            \* SSSS key metadata on the server, by key id
    CrossSigningKeys,   \* mach.CrossSigningKeys: the cached cross-signing key set
    published,          \* this account's cross-signing keys published on the server
    ssssSecrets,        \* the cross-signing key set kept in secret storage
    challenge,          \* the UIA flows the server asked of the last command's publish
    groupSessions,      \* inbound group sessions in the crypto store
    exportFile,         \* the file at the path given to import-keys / export-keys
    cmd,                \* the command that ran last: [name, args]
    log,                \* what that command did, in order
    panicked,           \* that command ended in a Go panic
    devices,            \* the device list of the user in the crypto store (GetDevices)
    auto,               \* the autocompletion request made last
    completions,        \* the completions it returned
    newText             \* the rewritten input line it returned

trustVars == <<device, stored, sas>>
ssssVars == <<defaultKeyID, keyData>>
crossVars == <<CrossSigningKeys, published, ssssSecrets, challenge>>
exportVars == <<groupSessions, exportFile>>
autoVars == <<devices, auto, completions, newText>>
vars == <<device, stored, sas, defaultKeyID, keyData, CrossSigningKeys, published,
          ssssSecrets, challenge, groupSessions, exportFile, cmd, log, panicked,
          devices, auto, completions, newText>>

----------------------------------------------------------------------------
(* Bounds and input sets *)

MaxFpArgs == 2          \* fingerprint arguments given to a manual verify

UserID == "@alice:hs"
DeviceIDs == {"DEV1", "DEV2"}
UnknownDeviceID == "DEVX"
FpTokens == {"a", "ab"}

SigningKeyOf(d) == IF d = "DEV1" THEN "ab" ELSE "aab"
DeletedOf(d) == d = "DEV2"

TrustStates == {"Unset", "Verified", "Blacklisted", "CrossSigningVerified"}

NoDevice == "nil"

FpArgs == UNION {[1..n -> FpTokens] : n \in 1..MaxFpArgs}

\* cmd.Args of the device commands: nothing, a user id, a user id and a device id
DeviceArgs ==
    {<<>>, <<UserID>>} \cup {<<UserID, d>> : d \in DeviceIDs \cup {UnknownDeviceID}}

\* cmd.Args of verify: the above, or a known device followed by a fingerprint
VerifyArgs == DeviceArgs \cup {<<UserID, d>> \o f : d \in DeviceIDs, f \in FpArgs}

----------------------------------------------------------------------------
(* The log of a command *)

\* a reply to the user; a call with the error it returned ("nil": none); a
\* prompt and whether the user answered it (ok) or dismissed it
Reply(text) == [ev |-> "reply", what |-> text, ok |-> TRUE, err |-> "nil"]
CallErr(name, err) == [ev |-> "call", what |-> name, ok |-> err = "nil", err |-> err]
Call(name, ok) == CallErr(name, IF ok THEN "nil" ELSE "error")
Prompt(title, ok) == [ev |-> "prompt", what |-> title, ok |-> ok, err |-> "nil"]

Replies(l) == SelectSeq(l, LAMBDA e : e.ev = "reply")
Called(l, name) == \E i \in 1..Len(l) : l[i].ev = "call" /\ l[i].what = name
CalledOk(l, name) == \E i \in 1..Len(l) : l[i] = Call(name, TRUE)
Replied(l, text) == \E i \in 1..Len(l) : l[i] = Reply(text)

\* the command dismissed a prompt at position i of its log
DismissedAt(l, i) == i \in 1..Len(l) /\ l[i].ev = "prompt" /\ ~l[i].ok

----------------------------------------------------------------------------
(* Device trust commands *)

\* strings.Join(cmd.Args[2:], "")
RECURSIVE Join(_)
Join(s) == IF s = <<>> THEN "" ELSE Head(s) \o Join(Tail(s))

\* variant: only the first fingerprint argument is compared
FingerprintFirstArg(args) == args[3]

Fingerprint(args) == Join(SubSeq(args, 3, Len(args)))

\* getDevice: the device the arguments name, or nil after a reply
getDevice(args, lookupOk) ==
    IF Len(args) < 2
    THEN [dev |-> NoDevice,
          log |-> <<Reply("Usage: /%s <user id> <device id> [fingerprint]")>>]
    ELSE IF ~(args[2] \in DeviceIDs /\ lookupOk)
    THEN [dev |-> NoDevice,
          log |-> <<Call("GetOrFetchDevice", FALSE), Reply("Failed to get device: %v")>>]
    ELSE [dev |-> args[2], log |-> <<Call("GetOrFetchDevice", TRUE)>>]

\* putDevice: persist the record, reply, notify
putDevice(dm, st, d, action, putOk) ==
    [stored |-> IF putOk THEN [st EXCEPT ![d] = dm[d].Trust] ELSE st,
     log |-> << Call("PutDevice", putOk),
                IF putOk THEN Reply("Successfully " \o action)
                         ELSE Reply("Failed to save device: %v"),
                Call("OnDevicesChanged", TRUE) >>]

\* variant: show persists the record it displayed
cmdDeviceSaves(dm, st, ss, args, lookupOk) ==
    LET g == getDevice(args, lookupOk) IN
    IF g.dev = NoDevice
    THEN [device |-> dm, stored |-> st, sas |-> ss, log |-> g.log]
    ELSE LET p == putDevice(dm, st, g.dev, "shown", TRUE)
         IN [device |-> dm, stored |-> p.stored, sas |-> ss, log |-> g.log \o p.log]

cmdDevice(dm, st, ss, args, lookupOk) ==
    LET g == getDevice(args, lookupOk) IN
    IF g.dev = NoDevice
    THEN [device |-> dm, stored |-> st, sas |-> ss, log |-> g.log]
    ELSE [device |-> dm, stored |-> st, sas |-> ss,
          log |-> g.log \o
                  << Reply((IF dm[g.dev].Deleted THEN "Deleted device" ELSE "Device")
                           \o " ... Trust state: " \o dm[g.dev].Trust) >>]

\* variant: a started interactive verification marks the device verified
cmdVerifyInteractiveTrusts(dm, st, ss, args, lookupOk, sasOk, putOk) ==
    LET g == getDevice(args, lookupOk)
        d == g.dev
    IN
    IF d = NoDevice
    THEN [device |-> dm, stored |-> st, sas |-> ss, log |-> g.log]
    ELSE IF dm[d].Trust = "Verified"
    THEN [device |-> dm, stored |-> st, sas |-> ss,
          log |-> g.log \o <<Reply("That device is already verified")>>]
    ELSE IF Len(args) = 2 /\ ~sasOk
    THEN [device |-> dm, stored |-> st, sas |-> ss,
          log |-> g.log \o << Call("ShowModal", TRUE),
                              Call("NewSimpleSASVerificationWith", FALSE),
                              Reply("Failed to start interactive verification: %v") >>]
    ELSE IF Len(args) > 2 /\ dm[d].SigningKey # Fingerprint(args)
    THEN [device |-> dm, stored |-> st, sas |-> ss,
          log |-> g.log \o <<Reply("Mismatching fingerprint")>>]
    ELSE LET action == IF dm[d].Trust = "Blacklisted"
                       THEN "unblacklisted and verified" ELSE "verified"
             dm2 == [dm EXCEPT ![d].Trust = "Verified"]
             p == putDevice(dm2, st, d, action, putOk)
             start == IF Len(args) = 2
                      THEN << Call("ShowModal", TRUE),
                              Call("NewSimpleSASVerificationWith", TRUE) >>
                      ELSE <<>>
         IN [device |-> dm2, stored |-> p.stored,
             sas |-> IF Len(args) = 2 THEN ss \cup {d} ELSE ss,
             log |-> g.log \o start \o p.log]

cmdVerify(dm, st, ss, args, lookupOk, sasOk, putOk) ==
    LET g == getDevice(args, lookupOk)
        d == g.dev
    IN
    IF d = NoDevice
    THEN [device |-> dm, stored |-> st, sas |-> ss, log |-> g.log]
    ELSE IF dm[d].Trust = "Verified"
    THEN [device |-> dm, stored |-> st, sas |-> ss,
          log |-> g.log \o <<Reply("That device is already verified")>>]
    ELSE IF Len(args) = 2
    THEN IF ~sasOk
         THEN [device |-> dm, stored |-> st, sas |-> ss,
               log |-> g.log \o << Call("ShowModal", TRUE),
                                   Call("NewSimpleSASVerificationWith", FALSE),
                                   Reply("Failed to start interactive verification: %v") >>]
         ELSE [device |-> dm, stored |-> st, sas |-> ss \cup {d},
               log |-> g.log \o << Call("ShowModal", TRUE),
                                   Call("NewSimpleSASVerificationWith", TRUE) >>]
    ELSE IF dm[d].SigningKey # Fingerprint(args)
    THEN [device |-> dm, stored |-> st, sas |-> ss,
          log |-> g.log \o <<Reply("Mismatching fingerprint")>>]
    ELSE LET action == IF dm[d].Trust = "Blacklisted"
                       THEN "unblacklisted and verified" ELSE "verified"
             dm2 == [dm EXCEPT ![d].Trust = "Verified"]
             p == putDevice(dm2, st, d, action, putOk)
         IN [device |-> dm2, stored |-> p.stored, sas |-> ss, log |-> g.log \o p.log]

cmdUnverify(dm, st, ss, args, lookupOk, putOk) ==
    LET g == getDevice(args, lookupOk)
        d == g.dev
    IN
    IF d = NoDevice
    THEN [device |-> dm, stored |-> st, sas |-> ss, log |-> g.log]
    ELSE IF dm[d].Trust = "Unset"
    THEN [device |-> dm, stored |-> st, sas |-> ss,
          log |-> g.log \o <<Reply("That device is already not verified")>>]
    ELSE LET action == IF dm[d].Trust = "Blacklisted"
                       THEN "unblacklisted" ELSE "unverified"
             dm2 == [dm EXCEPT ![d].Trust = "Unset"]
             p == putDevice(dm2, st, d, action, putOk)
         IN [device |-> dm2, stored |-> p.stored, sas |-> ss, log |-> g.log \o p.log]

\* variant: the guard reads the persisted trust state, not the record's
cmdBlacklistGuardOnStore(dm, st, ss, args, lookupOk, putOk) ==
    LET g == getDevice(args, lookupOk)
        d == g.dev
    IN
    IF d = NoDevice
    THEN [device |-> dm, stored |-> st, sas |-> ss, log |-> g.log]
    ELSE IF st[d] = "Blacklisted"
    THEN [device |-> dm, stored |-> st, sas |-> ss,
          log |-> g.log \o <<Reply("That device is already blacklisted")>>]
    ELSE LET action == IF dm[d].Trust = "Verified"
                       THEN "unverified and blacklisted" ELSE "blacklisted"
             dm2 == [dm EXCEPT ![d].Trust = "Blacklisted"]
             p == putDevice(dm2, st, d, action, putOk)
         IN [device |-> dm2, stored |-> p.stored, sas |-> ss, log |-> g.log \o p.log]

cmdBlacklist(dm, st, ss, args, lookupOk, putOk) ==
    LET g == getDevice(args, lookupOk)
        d == g.dev
    IN
    IF d = NoDevice
    THEN [device |-> dm, stored |-> st, sas |-> ss, log |-> g.log]
    ELSE IF dm[d].Trust = "Blacklisted"
    THEN [device |-> dm, stored |-> st, sas |-> ss,
          log |-> g.log \o <<Reply("That device is already blacklisted")>>]
    ELSE LET action == IF dm[d].Trust = "Verified"
                       THEN "unverified and blacklisted" ELSE "blacklisted"
             dm2 == [dm EXCEPT ![d].Trust = "Blacklisted"]
             p == putDevice(dm2, st, d, action, putOk)
         IN [device |-> dm2, stored |-> p.stored, sas |-> ss, log |-> g.log \o p.log]

\* each call a command makes either succeeds or fails; a command makes at most
\* one failing call among these, because it ends at the first failure or the
\* failing call is its last
TrustCalls == {"GetOrFetchDevice", "NewSimpleSASVerificationWith", "PutDevice"}

CmdDevice ==
    \E args \in DeviceArgs, fail \in {"none", "GetOrFetchDevice"} :
        LET r == cmdDevice(device, stored, sas, args, fail # "GetOrFetchDevice")
        IN /\ ~panicked
           /\ device' = r.device
           /\ stored' = r.stored
           /\ sas' = r.sas
           /\ cmd' = [name |-> "device", args |-> args]
           /\ log' = r.log
           /\ panicked' = FALSE
           /\ UNCHANGED <<autoVars, ssssVars, crossVars, exportVars>>

CmdVerify ==
    \E args \in VerifyArgs, fail \in {"none"} \cup TrustCalls :
        LET r == cmdVerify(device, stored, sas, args, fail # "GetOrFetchDevice",
                           fail # "NewSimpleSASVerificationWith", fail # "PutDevice")
        IN /\ ~panicked
           /\ device' = r.device
           /\ stored' = r.stored
           /\ sas' = r.sas
           /\ cmd' = [name |-> "verify", args |-> args]
           /\ log' = r.log
           /\ panicked' = FALSE
           /\ UNCHANGED <<autoVars, ssssVars, crossVars, exportVars>>

\* a verification session that was started runs into mach.DefaultSASTimeout:
\* it ends, and nothing else changes
SASTimeout ==
    \E d \in sas :
        /\ ~panicked
        /\ sas' = sas \ {d}
        /\ cmd' = [name |-> "sas-timeout", args |-> <<UserID, d>>]
        /\ log' = <<>>
        /\ panicked' = FALSE
        /\ UNCHANGED <<device, stored, autoVars, ssssVars, crossVars, exportVars>>

CmdUnverify ==
    \E args \in DeviceArgs, fail \in {"none", "GetOrFetchDevice", "PutDevice"} :
        LET r == cmdUnverify(device, stored, sas, args, fail # "GetOrFetchDevice",
                             fail # "PutDevice")
        IN /\ ~panicked
           /\ device' = r.device
           /\ stored' = r.stored
           /\ sas' = r.sas
           /\ cmd' = [name |-> "unverify", args |-> args]
           /\ log' = r.log
           /\ panicked' = FALSE
           /\ UNCHANGED <<autoVars, ssssVars, crossVars, exportVars>>

CmdBlacklist ==
    \E args \in DeviceArgs, fail \in {"none", "GetOrFetchDevice", "PutDevice"} :
        LET r == cmdBlacklist(device, stored, sas, args, fail # "GetOrFetchDevice",
                              fail # "PutDevice")
        IN /\ ~panicked
           /\ device' = r.device
           /\ stored' = r.stored
           /\ sas' = r.sas
           /\ cmd' = [name |-> "blacklist", args |-> args]
           /\ log' = r.log
           /\ panicked' = FALSE
           /\ UNCHANGED <<autoVars, ssssVars, crossVars, exportVars>>

----------------------------------------------------------------------------
(* Autocompletion of the device commands *)

MaxArgLen == 2          \* characters in the device argument being completed

\* texts that are compared letter by letter are sequences of characters
Chars == {"a", "A", "b", "B"}
Upper(c) == CASE c = "a" -> "A" [] c = "b" -> "B" [] OTHER -> c

\* strings.ToUpper, strings.HasPrefix
ToUpper(s) == [i \in 1..Len(s) |-> Upper(s[i])]
HasPrefix(s, prefix) == Len(prefix) <= Len(s) /\ SubSeq(s, 1, Len(prefix)) = prefix

\* device ids and display names in the store, upper case and not
AutoDeviceIDs == {<<"A", "B">>, <<"A", "A">>, <<"a", "b">>}
AutoNames == {<<"b", "a">>, <<"B">>}
DeviceEntry(deviceID, name) == [DeviceID |-> deviceID, Name |-> name]

\* the map GetDevices returns: one record per device id
DeviceLists ==
    {ds \in SUBSET {DeviceEntry(i, n) : i \in AutoDeviceIDs, n \in AutoNames} :
        \A x, y \in ds : x.DeviceID = y.DeviceID => x = y}

\* the orders in which a range over the map may visit it
Orders(ds) ==
    {o \in [1..Cardinality(ds) -> ds] : \A i, j \in 1..Cardinality(ds) : i # j => o[i] # o[j]}

DeviceTexts == UNION {[1..n -> Chars] : n \in 1..MaxArgLen}
UserTexts == {"@al", "@alice:hs"}
RoomMembers == {"@alice:hs", "@alina:hs"}

\* what Room.AutocompleteUser may return: no member, one, or both
UserCompletions ==
    {<<>>} \cup {<<m>> : m \in RoomMembers}
           \cup {<<m, n>> : <<m, n>> \in {p \in RoomMembers \X RoomMembers : p[1] # p[2]}}

AutoCommands == {"device", "devices", "verify"}

\* cmd.Args: none, a user text, a user text and a device text, and a fingerprint
AutoArgs ==
    {<<>>} \cup {<<u>> : u \in UserTexts}
           \cup {<<u, d>> : u \in UserTexts, d \in DeviceTexts}
           \cup {<<u, d, "ab">> : u \in {"@alice:hs"}, d \in DeviceTexts}

\* a rewritten line: the format and its arguments; "" when there is none
NoText == [line |-> "", cmd |-> "", user |-> "", device |-> <<>>]
UserLine(c, u) == [line |-> "/%s %s ", cmd |-> c, user |-> u, device |-> <<>>]
DeviceLine(c, u, d) == [line |-> "/%s %s %s ", cmd |-> c, user |-> u, device |-> d]

\* variant: the line is rewritten to the first match whenever there is one
autocompleteDeviceUserIDFirstMatch(c, userCompletions) ==
    IF Len(userCompletions) >= 1
    THEN [completions |-> <<>>, newText |-> UserLine(c.OrigCommand, userCompletions[1])]
    ELSE [completions |-> userCompletions, newText |-> NoText]

autocompleteDeviceUserID(c, userCompletions) ==
    IF Len(userCompletions) = 1
    THEN [completions |-> <<>>, newText |-> UserLine(c.OrigCommand, userCompletions[1])]
    ELSE [completions |-> userCompletions, newText |-> NoText]

\* the loop over the devices when a device argument is there: acc holds
\* completions and completedDeviceID so far; an exact match returns at once
RECURSIVE DeviceLoop(_, _, _)
DeviceLoop(order, existingID, acc) ==
    IF order = <<>> THEN acc
    ELSE LET dev == Head(order) IN
         IF dev.DeviceID = existingID
         THEN [done |-> TRUE, completions |-> <<>>, completedDeviceID |-> <<>>]
         ELSE IF HasPrefix(ToUpper(dev.Name), existingID) \/ HasPrefix(dev.DeviceID, existingID)
         THEN DeviceLoop(Tail(order), existingID,
                         [done |-> FALSE,
                          completions |-> Append(acc.completions, dev),
                          completedDeviceID |-> dev.DeviceID])
         ELSE DeviceLoop(Tail(order), existingID, acc)

autocompleteDeviceDeviceID(c, order, getOk) ==
    IF Len(order) = 0 \/ ~getOk
    THEN [completions |-> <<>>, newText |-> NoText]
    ELSE LET r == IF Len(c.Args) > 1
                  THEN DeviceLoop(order, ToUpper(c.Args[2]),
                                  [done |-> FALSE, completions |-> <<>>,
                                   completedDeviceID |-> <<>>])
                  ELSE [done |-> FALSE, completions |-> order,
                        completedDeviceID |-> order[Len(order)].DeviceID]
         IN IF r.done
            THEN [completions |-> <<>>, newText |-> NoText]
            ELSE [completions |-> r.completions,
                  newText |-> IF Len(r.completions) = 1
                              THEN DeviceLine(c.OrigCommand, c.Args[1], r.completedDeviceID)
                              ELSE NoText]

autocompleteDevice(c, userCompletions, order, getOk) ==
    IF Len(c.Args) = 0
    THEN [completions |-> <<>>, newText |-> NoText]
    ELSE IF Len(c.Args) = 1 /\ ~c.space
    THEN autocompleteDeviceUserID(c, userCompletions)
    ELSE IF c.Command # "devices"
    THEN autocompleteDeviceDeviceID(c, order, getOk)
    ELSE [completions |-> <<>>, newText |-> NoText]

\* a tab press on a device command: the command line, with what
\* Room.AutocompleteUser and GetDevices return for it
AutoRequest(command, args, space, users, getOk) ==
    [Command |-> command, OrigCommand |-> command, Args |-> args, space |-> space,
     users |-> users, getOk |-> getOk, returned |-> FALSE]

NoAuto == AutoRequest("none", <<>>, FALSE, <<>>, TRUE)

\* the requests: the user completions matter to a lone user argument, the
\* store's answer to the others
AutoRequests ==
    {AutoRequest(command, args, space, users, getOk) :
        command \in AutoCommands, args \in AutoArgs, space \in BOOLEAN,
        users \in UserCompletions, getOk \in BOOLEAN}

ReachesUserID(c) == Len(c.Args) = 1 /\ ~c.space

\* autocompleteDevice answers the pending request
Autocomplete ==
    \E order \in Orders(devices) :
        LET r == autocompleteDevice(auto, auto.users, order, auto.getOk)
        IN /\ ~auto.returned
           /\ auto' = [auto EXCEPT !.returned = TRUE]
           /\ completions' = r.completions
           /\ newText' = r.newText
           /\ UNCHANGED <<trustVars, ssssVars, crossVars, exportVars, cmd, log, panicked,
                          devices>>

----------------------------------------------------------------------------
(* Prompts *)

\* MainView.AskPassword returns the text and whether the prompt was answered
Dismissed == [ok |-> FALSE, text |-> ""]
Answered(text) == [ok |-> TRUE, text |-> text]
PromptAnswers == {Dismissed, Answered(""), Answered("hunter2")}

\* strings.ToLower on the argument texts the commands compare
ToLower(s) ==
    CASE s = "STATUS" -> "status"
      [] s = "--SET-DEFAULT" -> "--set-default"
      [] s = "--FORCE" -> "--force"
      [] s = "--SAVE-TO-DISK" -> "--save-to-disk"
      [] OTHER -> s

----------------------------------------------------------------------------
(* Key import and export *)

MaxSessions == 2        \* inbound group sessions that exist

SessionIDs == 1..MaxSessions
InRoom(s) == s % 2 = 1  \* the sessions of the room the command is typed in

AbsentFile == [kind |-> "absent", sessions |-> {}]
EmptyFile == [kind |-> "empty", sessions |-> {}]
Bundle(S) == [kind |-> "bundle", sessions |-> S]

Count(S) == ToString(Cardinality(S))

\* variant: a dismissed prompt is reported but the export goes on
exportKeysNoCancel(file, sessions, absOk, answer, exportOk, writeOk) ==
    IF ~absOk
    THEN [exportFile |-> file,
          log |-> <<Call("filepath.Abs", FALSE), Reply("Failed to get absolute path: %v")>>]
    ELSE LET export == IF exportOk THEN Bundle(sessions) ELSE EmptyFile
             l1 == << Call("filepath.Abs", TRUE), Prompt("Key export", answer.ok) >>
                   \o (IF answer.ok THEN <<>> ELSE <<Reply("Passphrase entry cancelled")>>)
                   \o <<Call("ExportKeys", exportOk)>>
                   \o (IF exportOk THEN <<>> ELSE <<Reply("Failed to export sessions: %v")>>)
         IN IF ~writeOk
            THEN [exportFile |-> file,
                  log |-> l1 \o << Call("WriteFile", FALSE),
                                   Reply("Failed to write sessions to %s: %v") >>]
            ELSE [exportFile |-> export,
                  log |-> l1 \o << Call("WriteFile", TRUE),
                                   Reply("Successfully exported " \o Count(sessions)
                                         \o " sessions to %s") >>]

\* exportKeys: ask for a passphrase, encrypt the sessions, write the file
exportKeys(file, sessions, absOk, answer, exportOk, writeOk) ==
    IF ~absOk
    THEN [exportFile |-> file,
          log |-> <<Call("filepath.Abs", FALSE), Reply("Failed to get absolute path: %v")>>]
    ELSE IF ~answer.ok
    THEN [exportFile |-> file,
          log |-> << Call("filepath.Abs", TRUE), Prompt("Key export", FALSE),
                     Reply("Passphrase entry cancelled") >>]
    ELSE LET export == IF exportOk THEN Bundle(sessions) ELSE EmptyFile
             l1 == << Call("filepath.Abs", TRUE), Prompt("Key export", TRUE),
                      Call("ExportKeys", exportOk) >>
                   \o (IF exportOk THEN <<>> ELSE <<Reply("Failed to export sessions: %v")>>)
         IN IF ~writeOk
            THEN [exportFile |-> file,
                  log |-> l1 \o << Call("WriteFile", FALSE),
                                   Reply("Failed to write sessions to %s: %v") >>]
            ELSE [exportFile |-> export,
                  log |-> l1 \o << Call("WriteFile", TRUE),
                                   Reply("Successfully exported " \o Count(sessions)
                                         \o " sessions to %s") >>]

cmdExportKeys(gs, file, getOk, absOk, answer, exportOk, writeOk) ==
    IF ~getOk
    THEN [exportFile |-> file,
          log |-> << Call("GetAllGroupSessions", FALSE),
                     Reply("Failed to get sessions to export: %v") >>]
    ELSE LET r == exportKeys(file, gs, absOk, answer, exportOk, writeOk)
         IN [exportFile |-> r.exportFile,
             log |-> <<Call("GetAllGroupSessions", TRUE)>> \o r.log]

cmdExportRoomKeys(gs, file, getOk, absOk, answer, exportOk, writeOk) ==
    IF ~getOk
    THEN [exportFile |-> file,
          log |-> << Call("GetGroupSessionsForRoom", FALSE),
                     Reply("Failed to get sessions to export: %v") >>]
    ELSE LET r == exportKeys(file, {s \in gs : InRoom(s)}, absOk, answer, exportOk, writeOk)
         IN [exportFile |-> r.exportFile,
             log |-> <<Call("GetGroupSessionsForRoom", TRUE)>> \o r.log]

\* cmdImportKeys: read the file, ask for the passphrase, import what the store accepts
cmdImportKeys(gs, file, absOk, readOk, answer, importOk, accepted) ==
    IF ~absOk
    THEN [groupSessions |-> gs,
          log |-> <<Call("filepath.Abs", FALSE), Reply("Failed to get absolute path: %v")>>]
    ELSE IF ~(readOk /\ file.kind # "absent")
    THEN [groupSessions |-> gs,
          log |-> << Call("filepath.Abs", TRUE), Call("ReadFile", FALSE),
                     Reply("Failed to read %s: %v") >>]
    ELSE IF ~answer.ok
    THEN [groupSessions |-> gs,
          log |-> << Call("filepath.Abs", TRUE), Call("ReadFile", TRUE),
                     Prompt("Key import", FALSE), Reply("Passphrase entry cancelled") >>]
    ELSE IF ~(importOk /\ file.kind = "bundle")
    THEN [groupSessions |-> gs,
          log |-> << Call("filepath.Abs", TRUE), Call("ReadFile", TRUE),
                     Prompt("Key import", TRUE), Call("ImportKeys", FALSE),
                     Reply("Failed to import sessions: %v") >>]
    ELSE [groupSessions |-> gs \cup (accepted \cap file.sessions),
          log |-> << Call("filepath.Abs", TRUE), Call("ReadFile", TRUE),
                     Prompt("Key import", TRUE), Call("ImportKeys", TRUE),
                     Reply("Successfully imported " \o Count(accepted \cap file.sessions)
                           \o "/" \o Count(file.sessions) \o " sessions") >>]

CmdExportKeys ==
    \E fail \in {"none", "GetAllGroupSessions", "filepath.Abs", "ExportKeys"},
       answer \in PromptAnswers, writeOk \in BOOLEAN :
        LET r == cmdExportKeys(groupSessions, exportFile, fail # "GetAllGroupSessions",
                               fail # "filepath.Abs", answer, fail # "ExportKeys", writeOk)
        IN /\ ~panicked
           /\ exportFile' = r.exportFile
           /\ cmd' = [name |-> "export-keys", args |-> <<"keys.txt">>]
           /\ log' = r.log
           /\ panicked' = FALSE
           /\ UNCHANGED <<autoVars, trustVars, ssssVars, crossVars, groupSessions>>

CmdExportRoomKeys ==
    \E fail \in {"none", "GetGroupSessionsForRoom", "filepath.Abs", "ExportKeys"},
       answer \in PromptAnswers, writeOk \in BOOLEAN :
        LET r == cmdExportRoomKeys(groupSessions, exportFile,
                                   fail # "GetGroupSessionsForRoom", fail # "filepath.Abs",
                                   answer, fail # "ExportKeys", writeOk)
        IN /\ ~panicked
           /\ exportFile' = r.exportFile
           /\ cmd' = [name |-> "export-room-keys", args |-> <<"keys.txt">>]
           /\ log' = r.log
           /\ panicked' = FALSE
           /\ UNCHANGED <<autoVars, trustVars, ssssVars, crossVars, groupSessions>>

CmdImportKeys ==
    \E fail \in {"none", "filepath.Abs", "ReadFile", "ImportKeys"},
       answer \in PromptAnswers, accepted \in SUBSET SessionIDs :
        LET r == cmdImportKeys(groupSessions, exportFile, fail # "filepath.Abs",
                               fail # "ReadFile", answer, fail # "ImportKeys", accepted)
        IN /\ ~panicked
           /\ groupSessions' = r.groupSessions
           /\ cmd' = [name |-> "import-keys", args |-> <<"keys.txt">>]
           /\ log' = r.log
           /\ panicked' = FALSE
           /\ UNCHANGED <<autoVars, trustVars, ssssVars, crossVars, exportFile>>

NextExport ==
    \/ CmdExportKeys
    \/ CmdExportRoomKeys
    \/ CmdImportKeys

----------------------------------------------------------------------------
(* Secret storage (SSSS) commands *)

KeyIDs == {"k1", "k2"}
NoKeyID == ""

AlgorithmAESHMACSHA2 == "m.secret_storage.v1.aes-hmac-sha2"
PassphraseAlgorithmPBKDF2 == "m.pbkdf2"

\* *ssss.KeyMetadata: Passphrase is "nil" or the algorithm of the passphrase
NilKeyData == [Nil |-> TRUE, Passphrase |-> "nil", Algorithm |-> ""]
KeyMetadata(passphrase, algorithm) ==
    [Nil |-> FALSE, Passphrase |-> passphrase, Algorithm |-> algorithm]

\* mach.SSSS.GetKeyData
GetKeyData(kd, keyID, netOk) ==
    IF ~netOk THEN [keyID |-> keyID, keyData |-> NilKeyData, err |-> "error"]
    ELSE IF keyID \notin DOMAIN kd
    THEN [keyID |-> keyID, keyData |-> NilKeyData, err |-> "MNotFound"]
    ELSE [keyID |-> keyID, keyData |-> kd[keyID], err |-> "nil"]

\* mach.SSSS.GetDefaultKeyData
GetDefaultKeyData(dk, kd, netOk) ==
    IF ~netOk THEN [keyID |-> NoKeyID, keyData |-> NilKeyData, err |-> "error"]
    ELSE IF dk = NoKeyID
    THEN [keyID |-> NoKeyID, keyData |-> NilKeyData,
          err |-> "ErrNoDefaultKeyAccountDataEvent"]
    ELSE GetKeyData(kd, dk, netOk)

cmdS4Status(dk, kd, keyID, netOk) ==
    LET g == IF keyID = "" THEN GetDefaultKeyData(dk, kd, netOk)
                           ELSE GetKeyData(kd, keyID, netOk)
        l1 == << CallErr(IF keyID = "" THEN "GetDefaultKeyData" ELSE "GetKeyData",
                         g.err) >>
        l2 == IF g.err = "ErrNoDefaultKeyAccountDataEvent"
              THEN l1 \o <<Reply("SSSS is not set up: no default key set")>>
              ELSE l1
        hasPassphrase == IF g.keyData.Passphrase # "nil"
                         THEN "yes (alg=" \o g.keyData.Passphrase \o ")" ELSE "no"
        algorithm == IF g.keyData.Algorithm # AlgorithmAESHMACSHA2
                     THEN g.keyData.Algorithm \o " (not supported!)"
                     ELSE g.keyData.Algorithm
    IN
    IF g.err \notin {"nil", "ErrNoDefaultKeyAccountDataEvent"}
    THEN [defaultKeyID |-> dk, keyData |-> kd, panicked |-> FALSE,
          log |-> l1 \o <<Reply("Failed to get key data: %v")>>]
    ELSE IF g.keyData.Nil
    THEN \* keyData.Passphrase on a nil *ssss.KeyMetadata
         [defaultKeyID |-> dk, keyData |-> kd, panicked |-> TRUE, log |-> l2]
    ELSE [defaultKeyID |-> dk, keyData |-> kd, panicked |-> FALSE,
          log |-> l2 \o << Reply("Default key is set. Key ID: " \o g.keyID
                                 \o " Has passphrase: " \o hasPassphrase
                                 \o " Algorithm: " \o algorithm) >>]

\* cmdS4Generate; newID is the id of the key ssss.NewKey makes
\* variant: a failed upload of the metadata is replied and the command goes on
cmdS4GenerateNoReturn(dk, kd, setDefault, answer, newID, newKeyOk, setDataOk, setDefaultOk) ==
    LET metadata == KeyMetadata(IF answer.text = "" THEN "nil"
                                ELSE PassphraseAlgorithmPBKDF2, AlgorithmAESHMACSHA2)
        kd2 == IF setDataOk
               THEN [k \in DOMAIN kd \cup {newID} |-> IF k = newID THEN metadata ELSE kd[k]]
               ELSE kd
    IN
    IF ~answer.ok
    THEN [defaultKeyID |-> dk, keyData |-> kd, panicked |-> FALSE,
          log |-> <<Prompt("Passphrase", FALSE)>>]
    ELSE IF ~newKeyOk
    THEN [defaultKeyID |-> dk, keyData |-> kd, panicked |-> FALSE,
          log |-> << Prompt("Passphrase", TRUE), Call("NewKey", FALSE),
                     Reply("Failed to generate new key: %v") >>]
    ELSE LET l1 == << Prompt("Passphrase", TRUE), Call("NewKey", TRUE),
                      Call("SetKeyData", setDataOk) >>
                   \o (IF setDataOk THEN <<>>
                       ELSE <<Reply("Failed to upload key metadata: %v")>>)
                   \o <<Reply("Successfully generated key " \o newID \o " Recovery key: %s")>>
         IN IF ~setDefault
            THEN [defaultKeyID |-> dk, keyData |-> kd2, panicked |-> FALSE,
                  log |-> l1 \o <<Reply("You can use /%s set-default " \o newID
                                        \o " to set it as the default")>>]
            ELSE IF ~setDefaultOk
            THEN [defaultKeyID |-> dk, keyData |-> kd2, panicked |-> FALSE,
                  log |-> l1 \o << Call("SetDefaultKeyID", FALSE),
                                   Reply("Failed to set key as default: %v") >>]
            ELSE [defaultKeyID |-> newID, keyData |-> kd2, panicked |-> FALSE,
                  log |-> l1 \o <<Call("SetDefaultKeyID", TRUE)>>]

cmdS4Generate(dk, kd, setDefault, answer, newID, newKeyOk, setDataOk, setDefaultOk) ==
    LET metadata == KeyMetadata(IF answer.text = "" THEN "nil"
                                ELSE PassphraseAlgorithmPBKDF2, AlgorithmAESHMACSHA2)
        kd2 == [k \in DOMAIN kd \cup {newID} |-> IF k = newID THEN metadata ELSE kd[k]]
    IN
    IF ~answer.ok
    THEN [defaultKeyID |-> dk, keyData |-> kd, panicked |-> FALSE,
          log |-> <<Prompt("Passphrase", FALSE)>>]
    ELSE IF ~newKeyOk
    THEN [defaultKeyID |-> dk, keyData |-> kd, panicked |-> FALSE,
          log |-> << Prompt("Passphrase", TRUE), Call("NewKey", FALSE),
                     Reply("Failed to generate new key: %v") >>]
    ELSE IF ~setDataOk
    THEN [defaultKeyID |-> dk, keyData |-> kd, panicked |-> FALSE,
          log |-> << Prompt("Passphrase", TRUE), Call("NewKey", TRUE),
                     Call("SetKeyData", FALSE),
                     Reply("Failed to upload key metadata: %v") >>]
    ELSE LET l1 == << Prompt("Passphrase", TRUE), Call("NewKey", TRUE),
                      Call("SetKeyData", TRUE),
                      Reply("Successfully generated key " \o newID \o " Recovery key: %s") >>
         IN IF ~setDefault
            THEN [defaultKeyID |-> dk, keyData |-> kd2, panicked |-> FALSE,
                  log |-> l1 \o <<Reply("You can use /%s set-default " \o newID
                                        \o " to set it as the default")>>]
            ELSE IF ~setDefaultOk
            THEN [defaultKeyID |-> dk, keyData |-> kd2, panicked |-> FALSE,
                  log |-> l1 \o << Call("SetDefaultKeyID", FALSE),
                                   Reply("Failed to set key as default: %v") >>]
            ELSE [defaultKeyID |-> newID, keyData |-> kd2, panicked |-> FALSE,
                  log |-> l1 \o <<Call("SetDefaultKeyID", TRUE)>>]

\* variant: a key that is not found is reported and made the default all the same
cmdS4SetDefaultNoReturn(dk, kd, keyID, netOk, setDefaultOk) ==
    LET g == GetKeyData(kd, keyID, netOk) IN
    IF g.err # "nil" /\ g.err # "MNotFound"
    THEN [defaultKeyID |-> dk, keyData |-> kd, panicked |-> FALSE,
          log |-> <<CallErr("GetKeyData", g.err), Reply("Failed to fetch key data: %v")>>]
    ELSE LET l1 == <<CallErr("GetKeyData", g.err)>>
                   \o (IF g.err = "MNotFound"
                       THEN <<Reply("Couldn't find key data on server")>> ELSE <<>>)
         IN IF ~setDefaultOk
            THEN [defaultKeyID |-> dk, keyData |-> kd, panicked |-> FALSE,
                  log |-> l1 \o << Call("SetDefaultKeyID", FALSE),
                                   Reply("Failed to set key as default: %v") >>]
            ELSE [defaultKeyID |-> keyID, keyData |-> kd, panicked |-> FALSE,
                  log |-> l1 \o << Call("SetDefaultKeyID", TRUE),
                                   Reply("Successfully set key " \o keyID \o " as default") >>]

cmdS4SetDefault(dk, kd, keyID, netOk, setDefaultOk) ==
    LET g == GetKeyData(kd, keyID, netOk) IN
    IF g.err # "nil"
    THEN [defaultKeyID |-> dk, keyData |-> kd, panicked |-> FALSE,
          log |-> << CallErr("GetKeyData", g.err),
                     IF g.err = "MNotFound"
                     THEN Reply("Couldn't find key data on server")
                     ELSE Reply("Failed to fetch key data: %v") >>]
    ELSE IF ~setDefaultOk
    THEN [defaultKeyID |-> dk, keyData |-> kd, panicked |-> FALSE,
          log |-> << Call("GetKeyData", TRUE), Call("SetDefaultKeyID", FALSE),
                     Reply("Failed to set key as default: %v") >>]
    ELSE [defaultKeyID |-> keyID, keyData |-> kd, panicked |-> FALSE,
          log |-> << Call("GetKeyData", TRUE), Call("SetDefaultKeyID", TRUE),
                     Reply("Successfully set key " \o keyID \o " as default") >>]

\* cmdSSSS: the subcommand decides
cmdSSSS(dk, kd, args, answer, newID, netOk, newKeyOk, setDataOk, setDefaultOk) ==
    IF Len(args) = 0
    THEN [defaultKeyID |-> dk, keyData |-> kd, panicked |-> FALSE,
          log |-> <<Reply("Usage: /%s <subcommand> [...]")>>]
    ELSE IF ToLower(args[1]) = "status"
    THEN cmdS4Status(dk, kd, IF Len(args) > 1 THEN args[2] ELSE "", netOk)
    ELSE IF ToLower(args[1]) = "generate"
    THEN cmdS4Generate(dk, kd, Len(args) > 1 /\ ToLower(args[2]) = "--set-default",
                       answer, newID, newKeyOk, setDataOk, setDefaultOk)
    ELSE IF ToLower(args[1]) = "set-default"
    THEN IF Len(args) < 2
         THEN [defaultKeyID |-> dk, keyData |-> kd, panicked |-> FALSE,
               log |-> <<Reply("Usage: /%s set-default <key ID>")>>]
         ELSE cmdS4SetDefault(dk, kd, args[2], netOk, setDefaultOk)
    ELSE [defaultKeyID |-> dk, keyData |-> kd, panicked |-> FALSE,
          log |-> <<Reply("Usage: /%s <subcommand> [...]")>>]

StatusArgs == {<<s>> : s \in {"status", "STATUS"}} \cup {<<"status", k>> : k \in KeyIDs}
GenerateArgs == {<<"generate">>, <<"generate", "--set-default">>,
                 <<"generate", "--SET-DEFAULT">>, <<"generate", "--force">>}
SetDefaultArgs == {<<"set-default">>} \cup {<<"set-default", k>> : k \in KeyIDs}
HelpArgs == {<<>>, <<"help">>}

\* /ssss status [key ID]
CmdS4Status ==
    \E args \in StatusArgs, netOk \in BOOLEAN :
        LET r == cmdSSSS(defaultKeyID, keyData, args, Dismissed, NoKeyID, netOk,
                         TRUE, TRUE, TRUE)
        IN /\ ~panicked
           /\ defaultKeyID' = r.defaultKeyID
           /\ keyData' = r.keyData
           /\ cmd' = [name |-> "ssss", args |-> args]
           /\ log' = r.log
           /\ panicked' = r.panicked
           /\ UNCHANGED <<autoVars, trustVars, crossVars, exportVars>>

\* /ssss generate [--set-default]; the new key has an id no key has yet
CmdS4Generate ==
    \E args \in GenerateArgs, answer \in PromptAnswers, newID \in KeyIDs,
       fail \in {"none", "NewKey", "SetKeyData", "SetDefaultKeyID"} :
        LET r == cmdSSSS(defaultKeyID, keyData, args, answer, newID, TRUE,
                         fail # "NewKey", fail # "SetKeyData", fail # "SetDefaultKeyID")
        IN /\ ~panicked
           /\ newID \notin DOMAIN keyData \cup {defaultKeyID}
           /\ defaultKeyID' = r.defaultKeyID
           /\ keyData' = r.keyData
           /\ cmd' = [name |-> "ssss", args |-> args]
           /\ log' = r.log
           /\ panicked' = r.panicked
           /\ UNCHANGED <<autoVars, trustVars, crossVars, exportVars>>

\* /ssss set-default <key ID>, and the usage replies
CmdS4SetDefault ==
    \E args \in SetDefaultArgs \cup HelpArgs,
       fail \in {"none", "GetKeyData", "SetDefaultKeyID"} :
        LET r == cmdSSSS(defaultKeyID, keyData, args, Dismissed, NoKeyID,
                         fail # "GetKeyData", TRUE, TRUE, fail # "SetDefaultKeyID")
        IN /\ ~panicked
           /\ defaultKeyID' = r.defaultKeyID
           /\ keyData' = r.keyData
           /\ cmd' = [name |-> "ssss", args |-> args]
           /\ log' = r.log
           /\ panicked' = r.panicked
           /\ UNCHANGED <<autoVars, trustVars, crossVars, exportVars>>

NextSSSS ==
    \/ CmdS4Status
    \/ CmdS4Generate
    \/ CmdS4SetDefault

----------------------------------------------------------------------------
(* Cross-signing commands *)

KeySetIDs == {"ks1", "ks2", "ks3", "ks4"}
NoKeys == "nil"

AuthTypePassword == "m.login.password"

\* mautrix.RespQueryKeys for this account: per role, a map from user id to key
NoPublished == [MasterKeys |-> <<>>, SelfSigningKeys |-> <<>>, UserSigningKeys |-> <<>>]
PublishedKeys(ks, roles) ==
    [MasterKeys |-> [u \in IF "master" \in roles THEN {UserID} ELSE {} |-> "master:" \o ks],
     SelfSigningKeys |-> [u \in IF "self" \in roles THEN {UserID} ELSE {} |-> "self:" \o ks],
     UserSigningKeys |-> [u \in IF "user" \in roles THEN {UserID} ELSE {} |-> "user:" \o ks]]
AllRoles == {"master", "self", "user"}

\* a key set that is nowhere yet: what GenerateCrossSigningKeys returns
FreshKeySet(cache, pub, secrets) ==
    CHOOSE k \in KeySetIDs :
        /\ k \notin {cache, secrets}
        /\ \A u \in DOMAIN pub.MasterKeys : pub.MasterKeys[u] # "master:" \o k
        /\ \A u \in DOMAIN pub.SelfSigningKeys : pub.SelfSigningKeys[u] # "self:" \o k
        /\ \A u \in DOMAIN pub.UserSigningKeys : pub.UserSigningKeys[u] # "user:" \o k

\* parseKeyResp: <<first, second, third, ok>>
parseKeyResp(keys, userID) ==
    IF userID \notin DOMAIN keys.MasterKeys THEN <<"", "", "", FALSE>>
    ELSE IF userID \notin DOMAIN keys.SelfSigningKeys THEN <<"", "", "", FALSE>>
    ELSE IF userID \notin DOMAIN keys.UserSigningKeys
    THEN <<keys.MasterKeys[userID], keys.SelfSigningKeys[userID], "", TRUE>>
    ELSE <<keys.MasterKeys[userID], keys.UserSigningKeys[userID],
           keys.SelfSigningKeys[userID], TRUE>>

cmdCrossSigningStatus(cache, pub, secrets, queryOk) ==
    IF cache # NoKeys
    THEN [CrossSigningKeys |-> cache, published |-> pub, ssssSecrets |-> secrets,
          log |-> << Reply("Cross-signing is set up and private keys are cached"),
                     Reply("Master key: " \o "master:" \o cache),
                     Reply("User signing key: " \o "user:" \o cache),
                     Reply("Self-signing key: " \o "self:" \o cache) >>]
    ELSE IF ~queryOk
    THEN [CrossSigningKeys |-> cache, published |-> pub, ssssSecrets |-> secrets,
          log |-> <<Call("QueryKeys", FALSE), Reply("Failed to query own keys: %v")>>]
    ELSE LET p == parseKeyResp(pub, UserID)
             masterKey == p[1]
             selfSigningKey == p[2]
             userSigningKey == p[3]
         IN IF ~p[4]
            THEN [CrossSigningKeys |-> cache, published |-> pub, ssssSecrets |-> secrets,
                  log |-> << Call("QueryKeys", TRUE),
                             Reply("Didn't find published cross-signing keys") >>]
            ELSE [CrossSigningKeys |-> cache, published |-> pub, ssssSecrets |-> secrets,
                  log |-> << Call("QueryKeys", TRUE),
                             Reply("Cross-signing is set up, but private keys are not cached"),
                             Reply("Master key: " \o masterKey),
                             Reply("User signing key: " \o userSigningKey),
                             Reply("Self-signing key: " \o selfSigningKey) >>]

\* uia.HasSingleStageFlow(stage)
HasSingleStageFlow(flows, stage) == \E i \in 1..Len(flows) : flows[i] = <<stage>>

NilAuth == [Type |-> "nil"]

\* the callback cmdCrossSigningGenerate gives to PublishCrossSigningKeys
UIACallback(flows, fallbackOk, answer) ==
    IF ~HasSingleStageFlow(flows, AuthTypePassword)
    THEN IF flows = <<>>
         THEN [auth |-> NilAuth,
               log |-> <<Reply("No supported authentication mechanisms found")>>]
         ELSE IF Len(flows[1]) # 1
         THEN [auth |-> NilAuth, log |-> <<>>]
         ELSE IF ~fallbackOk
         THEN [auth |-> NilAuth,
               log |-> << Reply("Opening browser for authentication"),
                          Call("UIAFallback", FALSE), Reply("Authentication failed: %v") >>]
         ELSE [auth |-> [Type |-> flows[1][1]],
               log |-> << Reply("Opening browser for authentication"),
                          Call("UIAFallback", TRUE) >>]
    ELSE IF ~answer.ok
    THEN [auth |-> NilAuth, log |-> <<Prompt("Account password", FALSE)>>]
    ELSE [auth |-> [Type |-> AuthTypePassword],
          log |-> <<Prompt("Account password", TRUE)>>]

\* what the server answers to the upload of the keys: no challenge, or the
\* flows of a user-interactive authentication challenge
NoUIA == << <<"no challenge">> >>
UIAFlows ==
    { <<>>,
      << <<AuthTypePassword>> >>,
      << <<"m.login.sso">> >>,
      << <<"m.login.sso">>, <<AuthTypePassword>> >>,
      << <<"m.login.sso">>, <<AuthTypePassword, "m.login.terms">> >>,
      << <<AuthTypePassword, "m.login.terms">>, <<"m.login.sso">> >> }

\* mach.PublishCrossSigningKeys: upload; on a challenge ask the callback and
\* upload again with what it returns, or give up when it returns nil
PublishCrossSigningKeys(uia, fallbackOk, answer, pubOk) ==
    IF uia = NoUIA
    THEN [ok |-> pubOk, log |-> <<Call("PublishCrossSigningKeys", pubOk)>>]
    ELSE LET cb == UIACallback(uia, fallbackOk, answer)
             ok == cb.auth # NilAuth /\ pubOk
         IN [ok |-> ok, log |-> cb.log \o <<Call("PublishCrossSigningKeys", ok)>>]

\* variant: the generated keys are cached before they are published
cmdCrossSigningGenerateCachesEarly(cache, pub, secrets, force, o) ==
    LET probe == IF force THEN <<>> ELSE <<Call("QueryKeys", o.probeOk)>>
        new == FreshKeySet(cache, pub, secrets)
        p == PublishCrossSigningKeys(o.uia, o.fallbackOk, o.answer, o.pubOk)
    IN
    IF ~force /\ o.probeOk /\ parseKeyResp(pub, UserID)[4]
    THEN [CrossSigningKeys |-> cache, published |-> pub, ssssSecrets |-> secrets,
          log |-> probe \o <<Reply("Found existing cross-signing keys. Use --force if you want to overwrite them.")>>]
    ELSE IF ~o.genOk
    THEN [CrossSigningKeys |-> cache, published |-> pub, ssssSecrets |-> secrets,
          log |-> probe \o << Call("GenerateCrossSigningKeys", FALSE),
                              Reply("Failed to generate cross-signing keys: %v") >>]
    ELSE IF ~p.ok
    THEN [CrossSigningKeys |-> new, published |-> pub, ssssSecrets |-> secrets,
          log |-> probe \o <<Call("GenerateCrossSigningKeys", TRUE)>> \o p.log
                  \o <<Reply("Failed to publish cross-signing keys: %v")>>]
    ELSE [CrossSigningKeys |-> new, published |-> PublishedKeys(new, AllRoles),
          ssssSecrets |-> secrets,
          log |-> probe \o <<Call("GenerateCrossSigningKeys", TRUE)>> \o p.log]

cmdCrossSigningGenerate(cache, pub, secrets, force, o) ==
    LET probe == IF force THEN <<>> ELSE <<Call("QueryKeys", o.probeOk)>>
        new == FreshKeySet(cache, pub, secrets)
        p == PublishCrossSigningKeys(o.uia, o.fallbackOk, o.answer, o.pubOk)
    IN
    IF ~force /\ o.probeOk /\ parseKeyResp(pub, UserID)[4]
    THEN [CrossSigningKeys |-> cache, published |-> pub, ssssSecrets |-> secrets,
          log |-> probe \o <<Reply("Found existing cross-signing keys. Use --force if you want to overwrite them.")>>]
    ELSE IF ~o.genOk
    THEN [CrossSigningKeys |-> cache, published |-> pub, ssssSecrets |-> secrets,
          log |-> probe \o << Call("GenerateCrossSigningKeys", FALSE),
                              Reply("Failed to generate cross-signing keys: %v") >>]
    ELSE IF ~p.ok
    THEN [CrossSigningKeys |-> cache, published |-> pub, ssssSecrets |-> secrets,
          log |-> probe \o <<Call("GenerateCrossSigningKeys", TRUE)>> \o p.log
                  \o <<Reply("Failed to publish cross-signing keys: %v")>>]
    ELSE [CrossSigningKeys |-> new, published |-> PublishedKeys(new, AllRoles),
          ssssSecrets |-> secrets,
          log |-> probe \o <<Call("GenerateCrossSigningKeys", TRUE)>> \o p.log]

VerifyErrors == {"nil", "ErrIncorrectSSSSKey", "ErrInvalidRecoveryKey", "error"}

\* getSSSS: the key of the default SSSS key, or nil after a reply
getSSSS(dk, kd, netOk, answer, verifyErr) ==
    LET g == GetDefaultKeyData(dk, kd, netOk)
        l1 == <<CallErr("GetDefaultKeyData", g.err)>>
    IN
    IF g.err # "nil"
    THEN [key |-> "nil",
          log |-> l1 \o << IF g.err = "MNotFound"
                           THEN Reply("SSSS not set up, use !ssss generate --set-default first")
                           ELSE Reply("Failed to fetch default SSSS key data: %v") >>]
    ELSE IF g.keyData.Passphrase = PassphraseAlgorithmPBKDF2
    THEN IF ~answer.ok
         THEN [key |-> "nil", log |-> l1 \o <<Prompt("Passphrase", FALSE)>>]
         ELSE LET l2 == l1 \o << Prompt("Passphrase", TRUE),
                                 CallErr("VerifyPassphrase", verifyErr) >>
              IN IF verifyErr = "ErrIncorrectSSSSKey"
                 THEN [key |-> "nil", log |-> l2 \o <<Reply("Incorrect passphrase")>>]
                 ELSE IF verifyErr # "nil"
                 THEN [key |-> "nil", log |-> l2 \o <<Reply("Failed to get SSSS key: %v")>>]
                 ELSE [key |-> g.keyID, log |-> l2]
    ELSE IF ~answer.ok
         THEN [key |-> "nil", log |-> l1 \o <<Prompt("Recovery key", FALSE)>>]
         ELSE LET l2 == l1 \o << Prompt("Recovery key", TRUE),
                                 CallErr("VerifyRecoveryKey", verifyErr) >>
              IN IF verifyErr = "ErrInvalidRecoveryKey"
                 THEN [key |-> "nil", log |-> l2 \o <<Reply("Malformed recovery key")>>]
                 ELSE IF verifyErr = "ErrIncorrectSSSSKey"
                 THEN [key |-> "nil", log |-> l2 \o <<Reply("Incorrect recovery key")>>]
                 ELSE IF verifyErr # "nil"
                 THEN [key |-> "nil", log |-> l2 \o <<Reply("Failed to get SSSS key: %v")>>]
                 ELSE [key |-> g.keyID, log |-> l2]

cmdCrossSigningFetch(cache, pub, secrets, dk, kd, saveToDisk, o) ==
    LET s == getSSSS(dk, kd, o.netOk, o.answer, o.verifyErr)
        fetched == o.ssssOk /\ secrets # NoKeys
    IN
    IF s.key = "nil"
    THEN [CrossSigningKeys |-> cache, published |-> pub, ssssSecrets |-> secrets,
          log |-> s.log]
    ELSE IF ~fetched
    THEN [CrossSigningKeys |-> cache, published |-> pub, ssssSecrets |-> secrets,
          log |-> s.log \o << Call("FetchCrossSigningKeysFromSSSS", FALSE),
                              Reply("Error fetching cross-signing keys: %v") >>]
    ELSE [CrossSigningKeys |-> secrets, published |-> pub, ssssSecrets |-> secrets,
          log |-> s.log \o <<Call("FetchCrossSigningKeysFromSSSS", TRUE)>>
                  \o (IF saveToDisk
                      THEN <<Reply("Saving keys to disk is not yet implemented")>>
                      ELSE <<>>)
                  \o <<Reply("Successfully unlocked cross-signing keys")>>]

\* variant: secret storage is unlocked before the cached keys are looked at
cmdCrossSigningUploadUnlocksFirst(cache, pub, secrets, dk, kd, o) ==
    LET s == getSSSS(dk, kd, o.netOk, o.answer, o.verifyErr) IN
    IF s.key = "nil"
    THEN [CrossSigningKeys |-> cache, published |-> pub, ssssSecrets |-> secrets,
          log |-> s.log]
    ELSE IF cache = NoKeys
    THEN [CrossSigningKeys |-> cache, published |-> pub, ssssSecrets |-> secrets,
          log |-> s.log \o <<Reply("Cross-signing keys not cached, use !%s generate first")>>]
    ELSE IF ~o.ssssOk
    THEN [CrossSigningKeys |-> cache, published |-> pub, ssssSecrets |-> secrets,
          log |-> s.log \o << Call("UploadCrossSigningKeysToSSSS", FALSE),
                              Reply("Failed to upload keys to SSSS: %v") >>]
    ELSE [CrossSigningKeys |-> cache, published |-> pub, ssssSecrets |-> cache,
          log |-> s.log \o << Call("UploadCrossSigningKeysToSSSS", TRUE),
                              Reply("Successfully uploaded cross-signing keys to SSSS") >>]

cmdCrossSigningUpload(cache, pub, secrets, dk, kd, o) ==
    LET s == getSSSS(dk, kd, o.netOk, o.answer, o.verifyErr) IN
    IF cache = NoKeys
    THEN [CrossSigningKeys |-> cache, published |-> pub, ssssSecrets |-> secrets,
          log |-> <<Reply("Cross-signing keys not cached, use !%s generate first")>>]
    ELSE IF s.key = "nil"
    THEN [CrossSigningKeys |-> cache, published |-> pub, ssssSecrets |-> secrets,
          log |-> s.log]
    ELSE IF ~o.ssssOk
    THEN [CrossSigningKeys |-> cache, published |-> pub, ssssSecrets |-> secrets,
          log |-> s.log \o << Call("UploadCrossSigningKeysToSSSS", FALSE),
                              Reply("Failed to upload keys to SSSS: %v") >>]
    ELSE [CrossSigningKeys |-> cache, published |-> pub, ssssSecrets |-> cache,
          log |-> s.log \o << Call("UploadCrossSigningKeysToSSSS", TRUE),
                              Reply("Successfully uploaded cross-signing keys to SSSS") >>]

\* cmdCrossSigning: the subcommand decides
cmdCrossSigning(cache, pub, secrets, dk, kd, args, o) ==
    IF Len(args) = 0
    THEN [CrossSigningKeys |-> cache, published |-> pub, ssssSecrets |-> secrets,
          log |-> <<Reply("Usage: /%s <subcommand> [...]")>>]
    ELSE IF ToLower(args[1]) = "status"
    THEN cmdCrossSigningStatus(cache, pub, secrets, o.netOk)
    ELSE IF ToLower(args[1]) = "generate"
    THEN cmdCrossSigningGenerate(cache, pub, secrets,
                                 Len(args) > 1 /\ ToLower(args[2]) = "--force", o)
    ELSE IF ToLower(args[1]) = "fetch"
    THEN cmdCrossSigningFetch(cache, pub, secrets, dk, kd,
                              Len(args) > 1 /\ ToLower(args[2]) = "--save-to-disk", o)
    ELSE IF ToLower(args[1]) = "upload"
    THEN cmdCrossSigningUpload(cache, pub, secrets, dk, kd, o)
    ELSE [CrossSigningKeys |-> cache, published |-> pub, ssssSecrets |-> secrets,
          log |-> <<Reply("Usage: /%s <subcommand> [...]")>>]

\* the outcomes of the calls and prompts of one cross-signing command
Outcomes(netOk, answer, verifyErr, ssssOk, probeOk, genOk, uia, fallbackOk, pubOk) ==
    [netOk |-> netOk, answer |-> answer, verifyErr |-> verifyErr, ssssOk |-> ssssOk,
     probeOk |-> probeOk, genOk |-> genOk, uia |-> uia, fallbackOk |-> fallbackOk,
     pubOk |-> pubOk]

\* /cross-signing status, and the usage replies
CmdCrossSigningStatus ==
    \E args \in {<<"status">>, <<"STATUS">>} \cup HelpArgs, netOk \in BOOLEAN :
        LET r == cmdCrossSigning(CrossSigningKeys, published, ssssSecrets, defaultKeyID,
                                 keyData, args,
                                 Outcomes(netOk, Dismissed, "nil", TRUE, TRUE, TRUE, NoUIA,
                                          TRUE, TRUE))
        IN /\ ~panicked
           /\ CrossSigningKeys' = r.CrossSigningKeys
           /\ published' = r.published
           /\ ssssSecrets' = r.ssssSecrets
           /\ challenge' = NoUIA
           /\ cmd' = [name |-> "cross-signing", args |-> args]
           /\ log' = r.log
           /\ panicked' = FALSE
           /\ UNCHANGED <<autoVars, trustVars, ssssVars, exportVars>>

\* /cross-signing generate [--force]; a call or prompt the command cannot reach
\* with these outcomes has its outcome fixed
CmdCrossSigningGenerate ==
    \E args \in {<<"generate">>, <<"generate", "--force">>, <<"generate", "--FORCE">>},
       probeOk \in BOOLEAN,
       fail \in {"none", "GenerateCrossSigningKeys", "UIAFallback", "PublishCrossSigningKeys"},
       uia \in {NoUIA} \cup UIAFlows, answer \in {Dismissed, Answered("hunter2")} :
        /\ ~panicked
        /\ Len(args) > 1 => probeOk
        /\ fail = "GenerateCrossSigningKeys" => uia = NoUIA
        /\ uia = NoUIA => fail # "UIAFallback" /\ ~answer.ok
        /\ LET r == cmdCrossSigning(CrossSigningKeys, published, ssssSecrets, defaultKeyID,
                                    keyData, args,
                                    Outcomes(TRUE, answer, "nil", TRUE, probeOk,
                                             fail # "GenerateCrossSigningKeys", uia,
                                             fail # "UIAFallback",
                                             fail # "PublishCrossSigningKeys"))
           IN /\ CrossSigningKeys' = r.CrossSigningKeys
              /\ published' = r.published
              /\ ssssSecrets' = r.ssssSecrets
              /\ challenge' = IF Called(r.log, "PublishCrossSigningKeys") THEN uia ELSE NoUIA
              /\ cmd' = [name |-> "cross-signing", args |-> args]
              /\ log' = r.log
              /\ panicked' = FALSE
              /\ UNCHANGED <<autoVars, trustVars, ssssVars, exportVars>>

\* /cross-signing fetch [--save-to-disk]
CmdCrossSigningFetch ==
    \E args \in {<<"fetch">>, <<"fetch", "--save-to-disk">>},
       netOk \in BOOLEAN, answer \in {Dismissed, Answered("hunter2")},
       verifyErr \in VerifyErrors, ssssOk \in BOOLEAN :
        LET r == cmdCrossSigning(CrossSigningKeys, published, ssssSecrets, defaultKeyID,
                                 keyData, args,
                                 Outcomes(netOk, answer, verifyErr, ssssOk, TRUE, TRUE,
                                          NoUIA, TRUE, TRUE))
        IN /\ ~panicked
           /\ CrossSigningKeys' = r.CrossSigningKeys
           /\ published' = r.published
           /\ ssssSecrets' = r.ssssSecrets
           /\ challenge' = NoUIA
           /\ cmd' = [name |-> "cross-signing", args |-> args]
           /\ log' = r.log
           /\ panicked' = FALSE
           /\ UNCHANGED <<autoVars, trustVars, ssssVars, exportVars>>

\* /cross-signing upload
CmdCrossSigningUpload ==
    \E netOk \in BOOLEAN, answer \in {Dismissed, Answered("hunter2")},
       verifyErr \in VerifyErrors, ssssOk \in BOOLEAN :
        LET r == cmdCrossSigning(CrossSigningKeys, published, ssssSecrets, defaultKeyID,
                                 keyData, <<"upload">>,
                                 Outcomes(netOk, answer, verifyErr, ssssOk, TRUE, TRUE,
                                          NoUIA, TRUE, TRUE))
        IN /\ ~panicked
           /\ CrossSigningKeys' = r.CrossSigningKeys
           /\ published' = r.published
           /\ ssssSecrets' = r.ssssSecrets
           /\ challenge' = NoUIA
           /\ cmd' = [name |-> "cross-signing", args |-> <<"upload">>]
           /\ log' = r.log
           /\ panicked' = FALSE
           /\ UNCHANGED <<autoVars, trustVars, ssssVars, exportVars>>

NextCross ==
    \/ CmdCrossSigningStatus
    \/ CmdCrossSigningGenerate
    \/ CmdCrossSigningFetch
    \/ CmdCrossSigningUpload

----------------------------------------------------------------------------
(* Specifications *)

NoCmd == [name |-> "none", args |-> <<>>]

\* the store holds the devices, each record as it was last persisted
InitDevices ==
    /\ device \in [DeviceIDs -> [Trust : TrustStates, Deleted : BOOLEAN,
                                 SigningKey : {SigningKeyOf(d) : d \in DeviceIDs}]]
    /\ \A d \in DeviceIDs : /\ device[d].SigningKey = SigningKeyOf(d)
                            /\ device[d].Deleted = DeletedOf(d)
    /\ stored = [d \in DeviceIDs |-> device[d].Trust]
    /\ sas = {}

InitObs ==
    /\ cmd = NoCmd
    /\ log = <<>>
    /\ panicked = FALSE
    /\ devices = {}
    /\ auto = [NoAuto EXCEPT !.returned = TRUE]
    /\ completions = <<>>
    /\ newText = NoText

InitSSSSFresh ==
    /\ defaultKeyID = NoKeyID
    /\ keyData = <<>>

InitCrossFresh ==
    /\ CrossSigningKeys = NoKeys
    /\ published = NoPublished
    /\ ssssSecrets = NoKeys
    /\ challenge = NoUIA

\* any sessions in the store, nothing at the path yet
InitExport ==
    /\ groupSessions \in SUBSET SessionIDs
    /\ exportFile = AbsentFile

InitExportFixed ==
    /\ groupSessions = SessionIDs
    /\ exportFile = AbsentFile

NextTrust ==
    \/ CmdDevice
    \/ CmdVerify
    \/ CmdUnverify
    \/ CmdBlacklist
    \/ SASTimeout

InitTrust ==
    InitDevices /\ InitSSSSFresh /\ InitCrossFresh /\ InitExportFixed /\ InitObs

TrustSpec == InitTrust /\ [][NextTrust]_vars

InitDevicesFixed ==
    /\ device = [d \in DeviceIDs |-> [Trust |-> "Unset", Deleted |-> DeletedOf(d),
                                      SigningKey |-> SigningKeyOf(d)]]
    /\ stored = [d \in DeviceIDs |-> "Unset"]
    /\ sas = {}

InitExportKeys ==
    InitDevicesFixed /\ InitSSSSFresh /\ InitCrossFresh /\ InitExport /\ InitObs

ExportSpec == InitExportKeys /\ [][NextExport]_vars

\* the account has no SSSS key, or one key k1 of any kind that may be the default;
\* the default may also name a key whose metadata is gone
InitSSSS ==
    /\ keyData \in {<<>>} \cup
          {[k \in {"k1"} |-> KeyMetadata(p, a)] :
              p \in {"nil", PassphraseAlgorithmPBKDF2, "other"},
              a \in {AlgorithmAESHMACSHA2, "other"}}
    /\ defaultKeyID \in {NoKeyID, "k1"}

InitSsssCmds ==
    InitDevicesFixed /\ InitSSSS /\ InitCrossFresh /\ InitExportFixed /\ InitObs

SsssSpec == InitSsssCmds /\ [][NextSSSS]_vars

\* the server has all, a part or nothing of an earlier key set ks1 of this
\* account, secret storage has it or not, and no key set is cached
PublishedRoles ==
    {{}, {"master"}, {"self", "user"}, {"master", "self"}, {"master", "self", "user"}}

InitCross ==
    /\ CrossSigningKeys = NoKeys
    /\ published \in {PublishedKeys("ks1", roles) : roles \in PublishedRoles}
    /\ ssssSecrets \in {NoKeys, "ks1"}
    /\ challenge = NoUIA

\* no SSSS at all, a default key id whose metadata is gone, or a default key k1
\* with a PBKDF2 passphrase, another passphrase or none
InitSSSSDefault ==
    \/ /\ keyData = <<>>
       /\ defaultKeyID \in {NoKeyID, "k1"}
    \/ /\ keyData \in {[k \in {"k1"} |-> KeyMetadata(p, AlgorithmAESHMACSHA2)] :
                          p \in {"nil", PassphraseAlgorithmPBKDF2, "other"}}
       /\ defaultKeyID = "k1"

InitCrossCmds ==
    InitDevicesFixed /\ InitSSSSDefault /\ InitCross /\ InitExportFixed /\ InitObs

CrossSpec == InitCrossCmds /\ [][NextCross]_vars

\* the commands that ask for a password, passphrase or recovery key, from an
\* account without SSSS whose cross-signing keys are in secret storage
NextPrompts ==
    \/ CmdImportKeys
    \/ CmdExportKeys
    \/ CmdExportRoomKeys
    \/ CmdS4Generate
    \/ CmdCrossSigningFetch
    \/ CmdCrossSigningUpload

InitPrompts ==
    /\ InitDevicesFixed /\ InitSSSSFresh /\ InitExportFixed /\ InitObs
    /\ CrossSigningKeys = NoKeys
    /\ published = PublishedKeys("ks1", AllRoles)
    /\ ssssSecrets = "ks1"
    /\ challenge = NoUIA

PromptSpec == InitPrompts /\ [][NextPrompts]_vars

\* tab completion of the device commands over any device list of the store
InitAuto ==
    /\ InitDevicesFixed /\ InitSSSSFresh /\ InitCrossFresh /\ InitExportFixed
    /\ cmd = NoCmd
    /\ log = <<>>
    /\ panicked = FALSE
    /\ devices \in DeviceLists
    /\ auto \in AutoRequests
    /\ Len(auto.Args) = 1 \/ ~auto.space
    /\ ReachesUserID(auto) \/ auto.users = <<>>
    /\ ~ReachesUserID(auto) \/ (auto.getOk /\ devices = {})
    /\ completions = <<>>
    /\ newText = NoText

NextAuto == Autocomplete

AutoSpec == InitAuto /\ [][NextAuto]_vars

\* the whole command set
Init ==
    InitDevicesFixed /\ InitSSSSFresh /\ InitCrossFresh /\ InitExportFixed /\ InitObs

Next ==
    \/ NextTrust
    \/ NextExport
    \/ NextSSSS
    \/ NextCross
    \/ NextAuto

Spec == Init /\ [][Next]_vars
----------------------------------------------------------------------------
(* Properties of the device trust commands (TrustSpec) *)

TrustCmds == {"verify", "unverify", "blacklist"}

\* the step is a trust command whose device lookup succeeded
TrustCmdOn(d) ==
    /\ cmd'.name \in TrustCmds
    /\ CalledOk(log', "GetOrFetchDevice")
    /\ d = cmd'.args[2]

\* C1: in a trust command the devices-changed notification comes only after a
\* store write that succeeded; when the store write fails the failure is
\* reported and the command fires no notification.
C1_NotifyOnlyAfterPersist ==
    cmd.name \in TrustCmds =>
        /\ \A i \in 1..Len(log) :
              log[i] = Call("OnDevicesChanged", TRUE) =>
                  \E j \in 1..(i - 1) : log[j] = Call("PutDevice", TRUE)
        /\ Called(log, "PutDevice") /\ ~CalledOk(log, "PutDevice") =>
              /\ Replied(log, "Failed to save device: %v")
              /\ ~Called(log, "OnDevicesChanged")

\* a trust command whose store write failed
C1_PersistFailed ==
    /\ cmd.name \in TrustCmds
    /\ Called(log, "PutDevice") /\ ~CalledOk(log, "PutDevice")

\* C3 as stated: a manual verify of any device changes its trust state exactly
\* when the fingerprint arguments, concatenated, equal the signing key; on a
\* mismatch it replies "Mismatching fingerprint" and changes nothing.
C3_ManualVerifyIffMatch ==
    [][\A d \in DeviceIDs :
          TrustCmdOn(d) /\ cmd'.name = "verify" /\ Len(cmd'.args) > 2 =>
              LET match == Join(SubSeq(cmd'.args, 3, Len(cmd'.args))) = device[d].SigningKey
              IN /\ (device'[d].Trust # device[d].Trust) <=> match
                 /\ ~match => /\ Replies(log') = <<Reply("Mismatching fingerprint")>>
                              /\ device' = device /\ stored' = stored
      ]_vars

\* C3 amended: the same for every device that is not already Verified.
C3_ManualVerifyIffMatchUnlessVerified ==
    [][\A d \in DeviceIDs :
          /\ TrustCmdOn(d) /\ cmd'.name = "verify" /\ Len(cmd'.args) > 2
          /\ device[d].Trust # "Verified"
          => LET match == Join(SubSeq(cmd'.args, 3, Len(cmd'.args))) = device[d].SigningKey
             IN /\ (device'[d].Trust # device[d].Trust) <=> match
                /\ ~match => /\ Replies(log') = <<Reply("Mismatching fingerprint")>>
                             /\ device' = device /\ stored' = stored
      ]_vars

\* a manual verify with a fingerprint given in two arguments verified the device
C3_VerifiedByTwoArguments ==
    /\ cmd.name = "verify" /\ Len(cmd.args) = 4
    /\ CalledOk(log, "PutDevice")
    /\ device[cmd.args[2]].Trust = "Verified"

\* C4: no verify command moves a deleted device to Verified or starts a
\* verification session for it.
C4_DeletedNeverVerified ==
    [][\A d \in DeviceIDs :
          TrustCmdOn(d) /\ cmd'.name = "verify" /\ device[d].Deleted =>
              /\ device'[d].Trust = "Verified" => device[d].Trust = "Verified"
              /\ d \in sas' => d \in sas
      ]_vars

\* a deleted device is Verified by a manual verify
C4_DeletedVerified ==
    /\ cmd.name = "verify" /\ CalledOk(log, "PutDevice")
    /\ device[cmd.args[2]].Deleted

\* C6: when a trust command ends, the in-memory trust state of its device is
\* the persisted one: when the store write failed, the record holds the trust
\* state it had before the command.
C6_MemoryEqualsStore ==
    [][\A d \in DeviceIDs :
          TrustCmdOn(d) /\ device[d].Trust = stored[d] =>
              /\ device'[d].Trust = stored'[d]
              /\ Called(log', "PutDevice") /\ ~CalledOk(log', "PutDevice") =>
                    device'[d].Trust = device[d].Trust
      ]_vars

\* the trust state each command moves a device to, and its reply when the
\* device is there already
Target(name) ==
    CASE name = "verify" -> "Verified"
      [] name = "unverify" -> "Unset"
      [] name = "blacklist" -> "Blacklisted"

AlreadyReply(name) ==
    CASE name = "verify" -> "That device is already verified"
      [] name = "unverify" -> "That device is already not verified"
      [] name = "blacklist" -> "That device is already blacklisted"

\* C8: a trust command on a device that is already in the command's target
\* state writes nothing, notifies nobody, changes nothing and replies the fixed
\* "already" message; the same command given twice in a row leaves the trust
\* state the first one left.
C8_TrustCommandsIdempotent ==
    [][\A d \in DeviceIDs :
          TrustCmdOn(d) =>
              /\ device[d].Trust = Target(cmd'.name) =>
                    /\ ~Called(log', "PutDevice")
                    /\ ~Called(log', "OnDevicesChanged")
                    /\ UNCHANGED <<device, stored, sas>>
                    /\ Replies(log') = <<Reply(AlreadyReply(cmd'.name))>>
              /\ cmd' = cmd /\ CalledOk(log, "GetOrFetchDevice") =>
                    device'[d].Trust = device[d].Trust
      ]_vars

\* each of the three commands has answered "already ..."
C8_AlreadyBlacklisted ==
    /\ cmd.name = "blacklist"
    /\ Replies(log) = <<Reply(AlreadyReply("blacklist"))>>
    /\ device[cmd.args[2]].Trust = "Blacklisted"

\* C11: the show command (device <userID> <deviceID>), whatever the lookup
\* returns, leaves every device's trust state, the store and the verification
\* sessions as they were, writes no device and fires no notification.
C11_ShowChangesNothing ==
    [][cmd'.name = "device" =>
          /\ UNCHANGED <<device, stored, sas>>
          /\ ~Called(log', "PutDevice")
          /\ ~Called(log', "OnDevicesChanged")
      ]_vars

\* show displayed a device whose record and store disagree after a failed write
C11_ShownAfterFailedWrite ==
    /\ cmd.name = "device" /\ CalledOk(log, "GetOrFetchDevice")
    /\ Len(Replies(log)) = 1
    /\ device[cmd.args[2]].Trust # stored[cmd.args[2]]

\* C20: an interactive verify (a user id and a device id, device not yet
\* Verified) writes no trust state: whether the session starts or not there is
\* no store write and no notification and the record and the store stay; a
\* failed start is replied and starts no session; a session that times out
\* leaves the record and the store as they were.
C20_InteractiveVerifyWritesNothing ==
    [][/\ \A d \in DeviceIDs :
            /\ TrustCmdOn(d) /\ cmd'.name = "verify" /\ Len(cmd'.args) = 2
            /\ device[d].Trust # "Verified"
            => /\ ~Called(log', "PutDevice")
               /\ ~Called(log', "OnDevicesChanged")
               /\ device' = device /\ stored' = stored
               /\ Called(log', "NewSimpleSASVerificationWith")
               /\ ~CalledOk(log', "NewSimpleSASVerificationWith") =>
                     /\ Replied(log', "Failed to start interactive verification: %v")
                     /\ sas' = sas
               /\ CalledOk(log', "NewSimpleSASVerificationWith") => sas' = sas \cup {d}
       /\ cmd'.name = "sas-timeout" /\ cmd' # cmd =>
            device' = device /\ stored' = stored
      ]_vars

\* the session of a blacklisted device timed out
C20_SessionTimedOut ==
    /\ cmd.name = "sas-timeout"
    /\ device[cmd.args[2]].Trust = "Blacklisted"
    /\ stored[cmd.args[2]] = "Blacklisted"

----------------------------------------------------------------------------
(* Properties of the SSSS commands (SsssSpec) *)

\* C2: /ssss status without a key id, on an account without a default key,
\* replies exactly "SSSS is not set up: no default key set" and ends normally.
C2_StatusWithoutDefaultKey ==
    /\ cmd.name = "ssss" /\ Len(cmd.args) = 1 /\ ToLower(cmd.args[1]) = "status"
    /\ defaultKeyID = NoKeyID
    /\ log[1].err # "error"
    => /\ Replies(log) = <<Reply("SSSS is not set up: no default key set")>>
       /\ ~panicked

\* /ssss status found no default key
C2_NoDefaultKeyReported ==
    /\ cmd.name = "ssss" /\ Len(cmd.args) = 1 /\ ToLower(cmd.args[1]) = "status"
    /\ Replied(log, "SSSS is not set up: no default key set")

\* the step is /ssss set-default k
SetDefaultOf(k) ==
    /\ cmd'.name = "ssss"
    /\ cmd'.args = <<"set-default", k>>

\* C10: set-default on a key id without metadata on the server replies
\* "Couldn't find key data on server", another fetch error has another reply,
\* SetDefaultKeyID is not called and the default stays; the default is set only
\* after the metadata was fetched.
C10_SetDefaultNeedsKeyData ==
    [][\A k \in KeyIDs :
          SetDefaultOf(k) =>
              /\ k \notin DOMAIN keyData =>
                    /\ ~Called(log', "SetDefaultKeyID")
                    /\ defaultKeyID' = defaultKeyID
                    /\ log'[1].err = "MNotFound" <=>
                          Replies(log') = <<Reply("Couldn't find key data on server")>>
                    /\ log'[1].err # "MNotFound" <=>
                          Replies(log') = <<Reply("Failed to fetch key data: %v")>>
              /\ defaultKeyID' # defaultKeyID \/ Called(log', "SetDefaultKeyID") =>
                    /\ log'[1] = Call("GetKeyData", TRUE)
                    /\ k \in DOMAIN keyData
      ]_vars

\* set-default was refused for a key id the server has no metadata of
C10_NotFoundReplied ==
    /\ cmd.name = "ssss" /\ Len(cmd.args) = 2 /\ cmd.args[1] = "set-default"
    /\ cmd.args[2] \notin DOMAIN keyData
    /\ Replies(log) = <<Reply("Couldn't find key data on server")>>

\* the step is an /ssss generate or an /ssss set-default command
S4WriteStep ==
    /\ cmd'.name = "ssss" /\ Len(cmd'.args) >= 1
    /\ ToLower(cmd'.args[1]) \in {"generate", "set-default"}

\* the metadata calls that show a key's metadata to be on the server
MetadataOnServer(e) == e = Call("SetKeyData", TRUE) \/ e = Call("GetKeyData", TRUE)

RecoveryKeyShown(l) ==
    \E k \in KeyIDs : Replied(l, "Successfully generated key " \o k \o " Recovery key: %s")

\* C21: over any sequence of generate and set-default commands, the default
\* key id is set only after the same command uploaded or fetched that key's
\* metadata, so the new default has metadata on the server; a generate whose
\* metadata upload failed ends there: no SetDefaultKeyID, no recovery key
\* shown, and the default and the metadata stay.
C21_DefaultOnlyToKnownMetadata ==
    [][S4WriteStep =>
          /\ \A i \in 1..Len(log') :
                log'[i].ev = "call" /\ log'[i].what = "SetDefaultKeyID" =>
                    \E j \in 1..(i - 1) : MetadataOnServer(log'[j])
          /\ defaultKeyID' # defaultKeyID =>
                /\ defaultKeyID' \in DOMAIN keyData'
                /\ CalledOk(log', "SetDefaultKeyID")
          /\ Called(log', "SetKeyData") /\ ~CalledOk(log', "SetKeyData") =>
                /\ ~Called(log', "SetDefaultKeyID")
                /\ ~RecoveryKeyShown(log')
                /\ Replies(log') = <<Reply("Failed to upload key metadata: %v")>>
                /\ defaultKeyID' = defaultKeyID /\ keyData' = keyData
      ]_vars

\* generate --set-default failed to upload its metadata on an account that has
\* a default key
C21_UploadFailedBeforeDefault ==
    /\ cmd.name = "ssss" /\ Len(cmd.args) = 2
    /\ cmd.args[1] = "generate" /\ ToLower(cmd.args[2]) = "--set-default"
    /\ Called(log, "SetKeyData") /\ ~CalledOk(log, "SetKeyData")
    /\ defaultKeyID \in DOMAIN keyData

----------------------------------------------------------------------------
(* Properties of the cross-signing commands (CrossSpec) *)

\* the server has this account's master and self-signing keys
KeysExist(pub) == UserID \in DOMAIN pub.MasterKeys /\ UserID \in DOMAIN pub.SelfSigningKeys

\* C5: generate without --force, when the keys exist on the server, calls
\* neither key generation nor publish, whatever the probe returns.
C5_NoGenerateOverExistingKeys ==
    [][cmd'.name = "cross-signing" /\ cmd'.args = <<"generate">> /\ KeysExist(published) =>
          /\ ~Called(log', "GenerateCrossSigningKeys")
          /\ ~Called(log', "PublishCrossSigningKeys")
      ]_vars

\* generate without --force replaced the keys the server had
C5_ExistingKeysReplaced ==
    /\ cmd.name = "cross-signing" /\ cmd.args = <<"generate">>
    /\ log[1] = Call("QueryKeys", FALSE)
    /\ CalledOk(log, "PublishCrossSigningKeys")

\* the command that ran last is /cross-signing generate, and its publish was
\* answered with a challenge
GenerateChallenged ==
    /\ cmd.name = "cross-signing" /\ Len(cmd.args) >= 1 /\ cmd.args[1] = "generate"
    /\ challenge # NoUIA

HasSingleStage(flows) == \E i \in 1..Len(flows) : Len(flows[i]) = 1

\* C13: when the challenge has no single-stage password flow, the browser
\* fallback is attempted if some flow has exactly one stage, in whatever
\* position the server lists it; only when no flow has one stage is there no
\* attempt, and then the reply is "No supported authentication mechanisms found".
C13_FallbackForAnySingleStageFlow ==
    GenerateChallenged /\ ~HasSingleStageFlow(challenge, AuthTypePassword) =>
        /\ HasSingleStage(challenge) => Called(log, "UIAFallback")
        /\ ~HasSingleStage(challenge) =>
              /\ ~Called(log, "UIAFallback")
              /\ Replied(log, "No supported authentication mechanisms found")
        /\ Replied(log, "No supported authentication mechanisms found") =>
              ~HasSingleStage(challenge)

\* the server listed a two-stage flow before a single-stage one
C13_SingleStageFlowListedSecond ==
    /\ GenerateChallenged
    /\ challenge = << <<AuthTypePassword, "m.login.terms">>, <<"m.login.sso">> >>
    /\ ~Called(log, "UIAFallback")

\* the command that ran last is /cross-signing status without cached keys, and
\* its key query succeeded
StatusQueried ==
    /\ cmd.name = "cross-signing" /\ Len(cmd.args) = 1 /\ ToLower(cmd.args[1]) = "status"
    /\ CrossSigningKeys = NoKeys
    /\ Len(log) >= 1 /\ log[1] = Call("QueryKeys", TRUE)

KeyOf(keys) == IF UserID \in DOMAIN keys THEN keys[UserID] ELSE ""

\* C14: status without cached keys answers "not found" exactly when the master
\* or the self-signing key is missing, and otherwise shows each published key
\* under its own label, the user-signing key being there or not.
C14_StatusLabelsKeysByRole ==
    StatusQueried =>
        IF ~KeysExist(published)
        THEN Replies(log) = <<Reply("Didn't find published cross-signing keys")>>
        ELSE Replies(log) =
                << Reply("Cross-signing is set up, but private keys are not cached"),
                   Reply("Master key: " \o KeyOf(published.MasterKeys)),
                   Reply("User signing key: " \o KeyOf(published.UserSigningKeys)),
                   Reply("Self-signing key: " \o KeyOf(published.SelfSigningKeys)) >>

\* status showed an account that published all three keys
C14_ThreeKeysShown ==
    /\ StatusQueried /\ KeysExist(published)
    /\ UserID \in DOMAIN published.UserSigningKeys
    /\ Len(Replies(log)) = 4

\* the step is /cross-signing generate, with or without --force
GenerateStep == cmd'.name = "cross-signing" /\ Len(cmd'.args) >= 1 /\ cmd'.args[1] = "generate"

\* C15: generate replaces the cached key set only when key generation and
\* publishing both succeeded; when the probe aborts, generation or publishing
\* fails, or the callback gives no credentials, the cached key set stays.
C15_CacheReplacedOnlyOnSuccess ==
    [][GenerateStep =>
          LET done == /\ CalledOk(log', "GenerateCrossSigningKeys")
                      /\ CalledOk(log', "PublishCrossSigningKeys")
          IN /\ CrossSigningKeys' # CrossSigningKeys => done
             /\ ~done => CrossSigningKeys' = CrossSigningKeys
             /\ done => CrossSigningKeys' # NoKeys /\ CrossSigningKeys' # CrossSigningKeys
      ]_vars

\* generate --force over a cached key set was abandoned at the password prompt
C15_PromptDismissedWithCachedKeys ==
    /\ GenerateChallenged
    /\ \E i \in 1..Len(log) : DismissedAt(log, i) /\ log[i].what = "Account password"
    /\ CrossSigningKeys # NoKeys

\* the command that ran last is /cross-signing fetch: it starts with the unlock
Unlocking == cmd.name = "cross-signing" /\ Len(cmd.args) >= 1 /\ cmd.args[1] = "fetch"

NoDefaultKeyData == defaultKeyID = NoKeyID \/ defaultKeyID \notin DOMAIN keyData

VerifyCalls == {"VerifyPassphrase", "VerifyRecoveryKey"}
Verified(l) == \E name \in VerifyCalls : CalledOk(l, name)
VerifyFailed(l, name, err) == \E i \in 1..Len(l) : l[i] = CallErr(name, err)
Prompted(l, title) == \E i \in 1..Len(l) : l[i].ev = "prompt" /\ l[i].what = title

\* C16: the unlock gives a key (and the command goes on to secret storage)
\* only after a verification that succeeded; without default key metadata it
\* replies the instruction to generate a key; each verification failure has
\* its own reply; the passphrase prompt is used exactly when the metadata
\* declares a PBKDF2 passphrase, the recovery-key prompt otherwise.
C16_UnlockClassifiesFailures ==
    Unlocking /\ log[1].err # "error" =>
        /\ Called(log, "FetchCrossSigningKeysFromSSSS") => Verified(log)
        /\ NoDefaultKeyData =>
              Replies(log) = <<Reply("SSSS not set up, use !ssss generate --set-default first")>>
        /\ ~NoDefaultKeyData =>
              LET pbkdf2 == keyData[defaultKeyID].Passphrase = PassphraseAlgorithmPBKDF2
              IN /\ Prompted(log, "Passphrase") <=> pbkdf2
                 /\ Prompted(log, "Recovery key") <=> ~pbkdf2
        /\ VerifyFailed(log, "VerifyPassphrase", "ErrIncorrectSSSSKey") =>
              Replies(log) = <<Reply("Incorrect passphrase")>>
        /\ VerifyFailed(log, "VerifyRecoveryKey", "ErrInvalidRecoveryKey") =>
              Replies(log) = <<Reply("Malformed recovery key")>>
        /\ VerifyFailed(log, "VerifyRecoveryKey", "ErrIncorrectSSSSKey") =>
              Replies(log) = <<Reply("Incorrect recovery key")>>
        /\ \A name \in VerifyCalls :
              VerifyFailed(log, name, "error") =>
                  Replies(log) = <<Reply("Failed to get SSSS key: %v")>>

\* the unlock ran on an account that has no default key
C16_UnlockWithoutDefaultKey ==
    /\ Unlocking /\ defaultKeyID = NoKeyID
    /\ log[1] = CallErr("GetDefaultKeyData", "ErrNoDefaultKeyAccountDataEvent")

\* C17: upload without a cached key set replies "generate first" and does
\* nothing else; fetch and upload call their secret-storage operation only
\* after the unlock gave a key, never after a failed or dismissed unlock.
C17_SecretStorageOnlyAfterUnlock ==
    [][/\ cmd'.name = "cross-signing" /\ Len(cmd'.args) >= 1
       /\ cmd'.args[1] \in {"fetch", "upload"}
       =>
          /\ cmd'.args[1] = "upload" /\ CrossSigningKeys = NoKeys =>
                log' = <<Reply("Cross-signing keys not cached, use !%s generate first")>>
          /\ \A i \in 1..Len(log') :
                /\ log'[i].ev = "call"
                /\ log'[i].what \in {"FetchCrossSigningKeysFromSSSS",
                                     "UploadCrossSigningKeysToSSSS"}
                => /\ \E j \in 1..(i - 1) :
                         \E name \in VerifyCalls : log'[j] = Call(name, TRUE)
                   /\ \A j \in 1..(i - 1) : log'[j].ok
      ]_vars

\* upload was refused for want of a cached key set although the account has a
\* default key to unlock
C17_UploadWithoutCachedKeys ==
    /\ cmd.name = "cross-signing" /\ cmd.args = <<"upload">>
    /\ log = <<Reply("Cross-signing keys not cached, use !%s generate first")>>
    /\ ~NoDefaultKeyData

----------------------------------------------------------------------------
(* Properties of key export (ExportSpec) and of the prompts (PromptSpec) *)

ExportCmds == {"export-keys", "export-room-keys"}

SuccessfullyExported ==
    {Reply("Successfully exported " \o Count(S) \o " sessions to %s") : S \in SUBSET SessionIDs}

\* C7: in an export a failed step ends the command; when encryption fails no
\* file is written and no success is replied; success is replied only when
\* encryption and the write succeeded.
C7_ExportErrorsAreTerminal ==
    cmd.name \in ExportCmds =>
        /\ \A i \in 1..Len(log) :
              log[i].ev = "call" /\ ~log[i].ok =>
                  \A j \in (i + 1)..Len(log) : log[j].ev = "reply"
        /\ Called(log, "ExportKeys") /\ ~CalledOk(log, "ExportKeys") =>
              /\ ~Called(log, "WriteFile")
              /\ \A i \in 1..Len(log) : log[i] \notin SuccessfullyExported
        /\ (\E i \in 1..Len(log) : log[i] \in SuccessfullyExported) =>
              CalledOk(log, "ExportKeys") /\ CalledOk(log, "WriteFile")

\* an export whose encryption failed
C7_EncryptionFailed ==
    /\ cmd.name \in ExportCmds
    /\ Called(log, "ExportKeys") /\ ~CalledOk(log, "ExportKeys")

\* C9: after a dismissed prompt the command only replies: it prompts no more,
\* calls nothing, and leaves the store, the file, the server and the cached
\* cross-signing keys as they were.
C9_DismissalAborts ==
    [][\A i \in 1..Len(log') :
          DismissedAt(log', i) =>
              /\ \A j \in (i + 1)..Len(log') : log'[j].ev = "reply"
              /\ UNCHANGED <<trustVars, ssssVars, crossVars, exportVars>>
      ]_vars

\* the recovery-key prompt of /cross-signing upload was dismissed
C9_UploadPromptDismissed ==
    /\ cmd.name = "cross-signing" /\ cmd.args = <<"upload">>
    /\ \E i \in 1..Len(log) : DismissedAt(log, i) /\ log[i].what = "Recovery key"
    /\ CrossSigningKeys # NoKeys
\* C18: a command that was aborted by the dismissal of a prompt replies a
\* cancellation notice after it.
C18_DismissalIsReported ==
    \A i \in 1..Len(log) :
        DismissedAt(log, i) => \E j \in (i + 1)..Len(log) : log[j].ev = "reply"

\* the passphrase prompt of /ssss generate was dismissed
C18_GeneratePromptDismissed ==
    /\ cmd.name = "ssss" /\ Len(cmd.args) >= 1 /\ ToLower(cmd.args[1]) = "generate"
    /\ log = <<Prompt("Passphrase", FALSE)>>

----------------------------------------------------------------------------
(* Properties of the autocompletion (AutoSpec) *)

\* C12: completing a lone user argument that is not followed by a space: with
\* exactly one matching member the line is rewritten to that member's id and
\* no completion is listed; otherwise the ids of all the matches are listed,
\* as many as there are matches, and the line is not rewritten.
C12_UserIDCompletion ==
    auto.returned /\ ReachesUserID(auto) =>
        IF Len(auto.users) = 1
        THEN newText = UserLine(auto.OrigCommand, auto.users[1]) /\ completions = <<>>
        ELSE completions = auto.users /\ Len(completions) = Len(auto.users)
             /\ newText = NoText

\* a lone user argument with one match was rewritten
C12_OneMemberMatched ==
    /\ auto.returned /\ ReachesUserID(auto) /\ Len(auto.users) = 1
    /\ newText.line = "/%s %s " /\ newText.user = "@alina:hs"

\* the device argument of a request, empty when there is none
DeviceArg(c) == IF Len(c.Args) > 1 THEN c.Args[2] ELSE <<>>

\* the argument is, ignoring case on both sides, a prefix of the id or the name
Offered(dev, arg) ==
    \/ HasPrefix(ToUpper(dev.DeviceID), ToUpper(arg))
    \/ HasPrefix(ToUpper(dev.Name), ToUpper(arg))

CompletesDeviceID(c) == c.returned /\ Len(c.Args) >= 1 /\ ~ReachesUserID(c) /\ c.getOk

\* C19: completing the device argument of a command other than devices: when
\* the argument is a known device id nothing is completed; otherwise the
\* devices offered are those the argument is a prefix of, ignoring case, by id
\* or by name, and a single offered device rewrites the line to its id; the
\* devices command completes no device.
C19_DeviceIDCompletion ==
    CompletesDeviceID(auto) =>
        IF auto.Command = "devices"
        THEN completions = <<>> /\ newText = NoText
        ELSE IF \E dev \in devices : dev.DeviceID = DeviceArg(auto)
        THEN completions = <<>> /\ newText = NoText
        ELSE LET offered == {dev \in devices : Offered(dev, DeviceArg(auto))}
             IN /\ {completions[i] : i \in 1..Len(completions)} = offered
                /\ Len(completions) = Cardinality(offered)
                /\ \A dev \in offered :
                      offered = {dev} =>
                          newText = DeviceLine(auto.OrigCommand, auto.Args[1], dev.DeviceID)

\* a device whose id is in lower case was not offered for a prefix of its id
C19_LowerCaseIDNotOffered ==
    /\ CompletesDeviceID(auto) /\ auto.Command = "verify"
    /\ DeviceArg(auto) = <<"a">>
    /\ devices = {DeviceEntry(<<"a", "b">>, <<"B">>)}
    /\ completions = <<>>
====
